---- MODULE Spec2Model ----
(***************************************************************************)
(* LokiLogFetcher (src/tools/loki_tools.py): a paginated range query       *)
(* against a log service, the accumulated collection (_logs), the cached   *)
(* sorted and formatted view (_result / logs) and the text stream          *)
(* (to_file).                                                              *)
(*                                                                         *)
(* Text is a sequence of one-character strings; a byte is its UTF-8 code.  *)
(* An entry is <<time_ns, message>>.  A response body is a sequence of     *)
(* result groups, each the sequence of its "values" entries.               *)
(* Timestamps are nanoseconds since the epoch, hence >= 0, and query_limit *)
(* is >= 1.  Formatting assumes a UTC local zone and the default           *)
(* date_format.                                                            *)
(***************************************************************************)
EXTENDS Integers, Sequences, FiniteSets, TLC

\* ---------------------------------------------------------------- bounds
\* Entries one fetcher unpacks over its life, at most.
MaxLogs == 5
\* Full pages the backend serves in one fetch session, at most.
MaxFullPages == 2
\* Entries one fetcher unpacks over its life when views are built.
MaxViewLogs == 3
\* Entries one fetcher unpacks over its life when streams are written.
MaxStreamLogs == 2

\* ------------------------------------------------------- program constants
\* 1e9: nanoseconds per second (x[0] / 1e9).
NsPerSec == 1000000000

\* ----------------------------------------------------------- input domains
TimeNs == {0, 1, NsPerSec}
Messages == { <<"a">>, <<"b", "\n", "a">> }
Entries == TimeNs \X Messages
\* Entries that differ in time only, for pagination.
PageEntries == {0, NsPerSec} \X { <<"a">> }
\* Entries written to streams.
StreamEntries == {0, 1999999500} \X Messages
Queries == {"q1", "q2"}
Directions == {"forward", "backward"}
Starts == {0, 1}
Limits == {1, 2}
Steps == {0, 1}
DataStructures == {"list", "dict"}

\* Python's None, and a list object holding v.
None == [none |-> TRUE]
List(v) == [list |-> v]
\* file=None, the default of to_file.
NoFile == [nofile |-> TRUE]

\* ------------------------------------------------------------ sequences
RECURSIVE Flatten(_)
Flatten(groups) ==
    IF groups = <<>> THEN <<>> ELSE Head(groups) \o Flatten(Tail(groups))

SeqsUpTo(S, n) == UNION { [1..k -> S] : k \in 0..n }

RECURSIVE SumLen(_)
SumLen(groups) ==
    IF groups = <<>> THEN 0 ELSE Len(Head(groups)) + SumLen(Tail(groups))

\* Response bodies {"data": {"result": [{"values": [...]}, ...]}} holding the
\* entries es: no group, one group, or two groups cut anywhere.
Bodies(es) ==
    { <<es>> } \cup { <<SubSeq(es, 1, k), SubSeq(es, k + 1, Len(es))>> : k \in 0..Len(es) }
      \cup (IF es = <<>> THEN { <<>> } ELSE {})

\* The bodies a backend holding entries of E may send for a request of at most
\* limit entries.
Responses(E, limit) == UNION { Bodies(es) : es \in SeqsUpTo(E, limit) }

Max(a, b) == IF a >= b THEN a ELSE b

Count(es, e) == Cardinality({ i \in DOMAIN es : es[i] = e })

\* ------------------------------------------------------------- __init__
EmptyLogs(structure) == <<>>

\* ---------------------------------------------------- _unpack_response
\* Mutant: an append that skips a pair the list already holds.
ListAppend_SkipsDuplicates(logs, e) ==
    IF \E i \in DOMAIN logs : logs[i] = e THEN logs ELSE Append(logs, e)

\* self._logs.append((time_ns, message))
ListAppend(logs, e) == Append(logs, e)

\* Mutant: self._logs[time_ns] = {message}, the set replaced.
DictAdd_Replaces(logs, e) ==
    [t \in DOMAIN logs \cup {e[1]} |-> IF t = e[1] THEN {e[2]} ELSE logs[t]]

\* self._logs[time_ns] on a defaultdict(set): a missing key is created with
\* an empty set.
GetItem(logs, time_ns) ==
    [t \in DOMAIN logs \cup {time_ns} |->
        IF t \in DOMAIN logs THEN logs[t] ELSE {}]

\* self._logs[time_ns].add(message)
DictAdd(logs, e) ==
    LET made == GetItem(logs, e[1])
    IN  [made EXCEPT ![e[1]] = made[e[1]] \cup {e[2]}]

Insert(structure, logs, e) ==
    IF structure = "list" THEN ListAppend(logs, e) ELSE DictAdd(logs, e)

\* The inner loop over one group's values: acc is [logs, length, time_peak].
RECURSIVE UnpackValues(_, _, _)
UnpackValues(structure, acc, values) ==
    IF values = <<>> THEN acc
    ELSE UnpackValues(structure,
                      [logs |-> Insert(structure, acc.logs, Head(values)),
                       length |-> acc.length + 1,
                       time_peak |-> Max(acc.time_peak, Head(values)[1])],
                      Tail(values))

RECURSIVE UnpackGroups(_, _, _)
UnpackGroups(structure, acc, groups) ==
    IF groups = <<>> THEN acc
    ELSE UnpackGroups(structure, UnpackValues(structure, acc, Head(groups)),
                      Tail(groups))

_unpack_response(structure, logs, response_data) ==
    UnpackGroups(structure, [logs |-> logs, length |-> 0, time_peak |-> 0],
                 response_data)

\* Number of (timestamp, message) pairs a collection holds.
RECURSIVE DictSize(_, _)
DictSize(logs, keys) ==
    IF keys = {} THEN 0
    ELSE LET t == CHOOSE x \in keys : TRUE
         IN  Cardinality(logs[t]) + DictSize(logs, keys \ {t})

Size(structure, logs) ==
    IF structure = "list" THEN Len(logs) ELSE DictSize(logs, DOMAIN logs)

\* The pairs a collection holds, as a set.
Pairs(structure, logs) ==
    IF structure = "list" THEN { logs[i] : i \in DOMAIN logs }
    ELSE UNION { { <<t, m>> : m \in logs[t] } : t \in DOMAIN logs }

\* ------------------------------------------------------------------ logs
\* Mutant: a sort that puts an entry before its equals.
RECURSIVE InsertByTime_Unstable(_, _)
InsertByTime_Unstable(sorted, e) ==
    IF sorted = <<>> THEN <<e>>
    ELSE IF e[1] <= Head(sorted)[1] THEN <<e>> \o sorted
    ELSE <<Head(sorted)>> \o InsertByTime_Unstable(Tail(sorted), e)

\* sorted(self._logs, key=lambda x: x[0]): a stable sort by timestamp.
RECURSIVE InsertByTime(_, _)
InsertByTime(sorted, e) ==
    IF sorted = <<>> THEN <<e>>
    ELSE IF e[1] < Head(sorted)[1] THEN <<e>> \o sorted
    ELSE <<Head(sorted)>> \o InsertByTime(Tail(sorted), e)

RECURSIVE SortedByTime(_)
SortedByTime(es) ==
    IF es = <<>> THEN <<>>
    ELSE InsertByTime(SortedByTime(SubSeq(es, 1, Len(es) - 1)), es[Len(es)])

\* Every order in which iterating a set can yield its elements.
Orders(S) ==
    { f \in [1..Cardinality(S) -> S] : \A i, j \in DOMAIN f : i # j => f[i] # f[j] }

\* sorted(self._logs.items(), key=lambda x: x[0]): the keys, ascending.
RECURSIVE SortedKeys(_)
SortedKeys(keys) ==
    IF keys = {} THEN <<>>
    ELSE LET t == CHOOSE x \in keys : \A y \in keys : x <= y
         IN  <<t>> \o SortedKeys(keys \ {t})

\* for t, v in sorted(items): for i in v: append((t, i)); the set v is
\* iterated in an order of its own.
RECURSIVE DictFlattenings(_, _)
DictFlattenings(logs, keys) ==
    IF keys = <<>> THEN { <<>> }
    ELSE { [i \in DOMAIN o |-> <<Head(keys), o[i]>>] \o rest :
             o \in Orders(logs[Head(keys)]),
             rest \in DictFlattenings(logs, Tail(keys)) }

\* The raw (unformatted) sequences the logs property may build.
RawViews(structure, logs) ==
    IF structure = "list" THEN { SortedByTime(logs) }
    ELSE DictFlattenings(logs, SortedKeys(DOMAIN logs))

Digit(d) ==
    CASE d = 0 -> "0" [] d = 1 -> "1" [] d = 2 -> "2" [] d = 3 -> "3"
      [] d = 4 -> "4" [] d = 5 -> "5" [] d = 6 -> "6" [] d = 7 -> "7"
      [] d = 8 -> "8" [] d = 9 -> "9"

TwoDigits(n) == <<Digit(n \div 10), Digit(n % 10)>>

RECURSIVE Pow2(_)
Pow2(k) == IF k = 0 THEN 1 ELSE 2 * Pow2(k - 1)

\* The exponent of the leading bit of n >= 1.
RECURSIVE FloorLog2(_)
FloorLog2(n) == IF n < 2 THEN 0 ELSE 1 + FloorLog2(n \div 2)

\* Binary long division of rem / 1e9, 0 < rem < 1e9, down to the leading 1
\* bit of the quotient: the remainder left and the exponent of that bit.
RECURSIVE LeadingBit(_, _)
LeadingBit(rem, exponent) ==
    IF 2 * rem >= NsPerSec
    THEN [rem |-> 2 * rem - NsPerSec, last |-> 1, exponent |-> exponent - 1]
    ELSE LeadingBit(2 * rem, exponent - 1)

\* n more bits of the quotient: the remainder left and the last bit.
RECURSIVE DivideBits(_, _)
DivideBits(d, n) ==
    IF n = 0 THEN d
    ELSE LET bit == IF 2 * d.rem >= NsPerSec THEN 1 ELSE 0
         IN  DivideBits([d EXCEPT !.rem = 2 * d.rem - bit * NsPerSec,
                                  !.last = bit], n - 1)

\* The microsecond of the second for an instant half way between two: t / 1e9
\* is the double nearest the quotient (53 significant bits, ties to even),
\* its fraction times 1e6 is rounded to a double again, and only a product
\* that is still the exact half is rounded half-even.  q is the microsecond
\* below, r0 the nanoseconds of the second, s the whole seconds.
RoundHalf(s, r0, q) ==
    LET lead == IF s >= 1
                THEN [rem |-> r0, last |-> s % 2, exponent |-> FloorLog2(s)]
                ELSE LeadingBit(r0, 0)
        d == DivideBits(lead, IF s >= 1 THEN 52 - lead.exponent ELSE 52)
        up == d.rem > NsPerSec \div 2 \/ (d.rem = NsPerSec \div 2 /\ d.last = 1)
        err == IF up THEN NsPerSec - d.rem ELSE d.rem
        k == (IF q = 0 THEN -1 ELSE FloorLog2(q)) - lead.exponent - 1
        far == IF k >= 0 THEN err > 1000 * Pow2(k) ELSE err > 1000 \div Pow2(-k)
    IN  IF far THEN (IF up THEN q + 1 ELSE q) ELSE q + (q % 2)

\* datetime.fromtimestamp(t / 1e9): the double t / 1e9 split by modf, its
\* fraction times 1e6 rounded half-even to a microsecond; the result is
\* [second, microsecond].
fromtimestamp(t) ==
    LET s == t \div NsPerSec
        r0 == t % NsPerSec
        q == r0 \div 1000
        r == r0 % 1000
        us == IF r = 500 THEN RoundHalf(s, r0, q)
              ELSE IF r > 500 THEN q + 1 ELSE q
    IN  [second |-> s + us \div 1000000, microsecond |-> us % 1000000]

\* .strftime("%Y-%m-%d %H:%M:%S") of an instant of 1970-01-01.
strftime(dt) ==
    <<"1", "9", "7", "0", "-", "0", "1", "-", "0", "1", " ">>
      \o TwoDigits((dt.second \div 3600) % 24) \o <<":">>
      \o TwoDigits((dt.second \div 60) % 60) \o <<":">>
      \o TwoDigits(dt.second % 60)

FormatTime(t) == strftime(fromtimestamp(t))

FormatAll(raw) == [i \in DOMAIN raw |-> <<FormatTime(raw[i][1]), raw[i][2]>>]

\* if not self._result: None and the empty list are both recomputed.
Falsy(result) == result = None \/ result = List(<<>>)

\* --------------------------------------------------------------- to_file
Ord(c) ==
    CASE c = "\t" -> 9 [] c = "\n" -> 10 [] c = " " -> 32 [] c = "-" -> 45
      [] c = "0" -> 48 [] c = "1" -> 49 [] c = "2" -> 50 [] c = "3" -> 51
      [] c = "4" -> 52 [] c = "5" -> 53 [] c = "6" -> 54 [] c = "7" -> 55
      [] c = "8" -> 56 [] c = "9" -> 57 [] c = ":" -> 58
      [] c = "a" -> 97 [] c = "b" -> 98

\* str.encode('utf-8') of text in the ASCII range.
Encode(text) == [i \in DOMAIN text |-> Ord(text[i])]

\* Mutant: the line written without its NEWLINE.
Line_NoNewline(log) == Encode(log[1] \o <<"\t">> \o log[2])

\* f'{log[0]}\t{log[1]}\n'.encode(enc)
Line(log) == Encode(log[1] \o <<"\t">> \o log[2] \o <<"\n">>)

\* BytesIO.write: the bytes overwrite from the cursor on and extend the
\* buffer, a gap between the end and the cursor is filled with zero bytes;
\* the cursor moves past them.  Writing nothing changes nothing.
Write(file, bytes) ==
    IF bytes = <<>> THEN file
    ELSE LET end == file.pos + Len(bytes)
             n == Max(Len(file.buf), end)
         IN  [buf |-> [i \in 1..n |->
                         IF i > file.pos /\ i <= end THEN bytes[i - file.pos]
                         ELSE IF i <= Len(file.buf) THEN file.buf[i]
                         ELSE 0],
              pos |-> end]

RECURSIVE WriteAll(_, _)
WriteAll(file, logs) ==
    IF logs = <<>> THEN file
    ELSE WriteAll(Write(file, Line(Head(logs))), Tail(logs))

\* file.seek(0)
Seek0(file) == [file EXCEPT !.pos = 0]

\* BytesIO()
NewFile == [buf |-> <<>>, pos |-> 0]

\* Sinks a caller may hand over: empty with the cursor at the start or past
\* the end, or holding the byte "x" with the cursor before it, after it, or
\* past the end.
SuppliedFiles ==
    { NewFile, [buf |-> <<>>, pos |-> 3],
      [buf |-> <<120>>, pos |-> 0], [buf |-> <<120>>, pos |-> 1],
      [buf |-> <<120>>, pos |-> 3] }

\* ----------------------------------------------------------------- state
VARIABLES
    query_limit,           \* self.query_limit
    next_chunk_step_ns,    \* self.next_chunk_step_ns
    data_parse_structure,  \* "list" or "dict"
    _logs,                 \* self._logs: a list of entries, or time -> set
    _result,               \* self._result: None or the cached view
    pc,                    \* "idle", or "requesting": blocked in requests.get
    frames,                \* the fetch_logs invocations of the session, the
                           \* caller's first: [query, start, fetch_all, direction]
    pages,                 \* the well-formed pages of the session, flattened
    outcome,               \* of the last fetch: "none", "returned", "raised"
    budget,                \* full pages the backend will still serve
    fetched,               \* history: every entry unpacked so far, in order
    added,                 \* history: pairs the last page added to _logs
    values_count,          \* history: values entries of the last page's body
    rawView,               \* history: the raw entries behind _result, or <<>>
    file,                  \* the sink to_file returned last, or NoFile
    file_before,           \* history: that sink as to_file found it
    do_seek                \* history: to_file's do_seek argument

vars == <<query_limit, next_chunk_step_ns, data_parse_structure, _logs,
          _result, pc, frames, pages, outcome, budget, fetched, added,
          values_count, rawView, file, file_before, do_seek>>

config == <<query_limit, next_chunk_step_ns, data_parse_structure>>
sink == <<file, file_before, do_seek>>

Init ==
    /\ query_limit \in Limits
    /\ next_chunk_step_ns \in Steps
    /\ data_parse_structure \in DataStructures
    /\ _logs = EmptyLogs(data_parse_structure)
    /\ _result = None
    /\ pc = "idle"
    /\ frames = <<>>
    /\ pages = <<>>
    /\ outcome = "none"
    /\ budget = 0
    /\ fetched = <<>>
    /\ added = 0
    /\ values_count = 0
    /\ rawView = <<>>
    /\ file = NoFile
    /\ file_before = NoFile
    /\ do_seek = FALSE

\* ------------------------------------------------------------ fetch_logs
\* params = {'limit': ..., 'direction': ..., 'start': ..., 'query': ...}
Params(frame, limit) ==
    [limit |-> limit, direction |-> frame.direction, start |-> frame.start,
     query |-> frame.query]

\* Mutant: the recursion decided by the page's length alone.
ShouldRecurse_IgnoresFetchAll(fetch_all, length, limit) == length = limit

\* Mutant: the recursion decided by any page that is not empty.
ShouldRecurse_OnAnyEntry(fetch_all, length, limit) == fetch_all /\ length >= 1

\* if fetch_all and length == self.query_limit
ShouldRecurse(fetch_all, length, limit) == fetch_all /\ length = limit

\* Mutant: the next chunk started at the latest timestamp itself.
RecursiveCall_NoStep(frame, time_peak, step) ==
    [query |-> frame.query, start |-> time_peak, fetch_all |-> TRUE,
     direction |-> "forward"]

\* self.fetch_logs(query=query, start=last_item_time_ns + next_chunk_step_ns):
\* fetch_all and direction take their defaults.
RecursiveCall(frame, time_peak, step) ==
    [query |-> frame.query, start |-> time_peak + step, fetch_all |-> TRUE,
     direction |-> "forward"]

\* Mutant: fetch_logs leaves the cached view.
ResetResult_Keeps(result) == result

\* What the entry of fetch_logs does to the cache: self._result = None.
ResetResult(result) == None

\* A call of fetch_logs by the user, up to its blocking requests.get.  The
\* backend will serve at most b full pages, and they fit the model's bound.
fetch_logs(query, start, fetch_all, direction, b, room) ==
    /\ pc = "idle"
    /\ Len(fetched) + b * query_limit + (query_limit - 1) <= room
    /\ _result' = ResetResult(_result)
    /\ rawView' = IF _result' = None THEN <<>> ELSE rawView
    /\ frames' = << [query |-> query, start |-> start, fetch_all |-> fetch_all,
                     direction |-> direction] >>
    /\ pages' = <<>>
    /\ outcome' = "none"
    /\ budget' = b
    /\ pc' = "requesting"
    /\ added' = 0
    /\ values_count' = 0
    /\ file' = NoFile
    /\ file_before' = NoFile
    /\ do_seek' = FALSE
    /\ UNCHANGED <<config, _logs, fetched>>

\* requests.get returns a well-formed body: resp.json(), _unpack_response,
\* and either the recursive call (up to its requests.get) or the return.
ReceivePage(response_data) ==
    /\ pc = "requesting"
    /\ SumLen(response_data) = query_limit => budget > 0
    /\ LET frame == frames[Len(frames)]
           u == _unpack_response(data_parse_structure, _logs, response_data)
       IN  /\ _logs' = u.logs
           /\ fetched' = fetched \o Flatten(response_data)
           /\ pages' = Append(pages, Flatten(response_data))
           /\ added' = Size(data_parse_structure, u.logs)
                         - Size(data_parse_structure, _logs)
           /\ values_count' = SumLen(response_data)
           /\ budget' = IF SumLen(response_data) = query_limit
                        THEN budget - 1 ELSE budget
           /\ IF ShouldRecurse(frame.fetch_all, u.length, query_limit)
              THEN /\ frames' = Append(frames,
                          RecursiveCall(frame, u.time_peak, next_chunk_step_ns))
                   /\ _result' = ResetResult(_result)
                   /\ pc' = "requesting"
                   /\ outcome' = "none"
              ELSE /\ frames' = frames
                   /\ _result' = _result
                   /\ pc' = "idle"
                   /\ outcome' = "returned"
    /\ UNCHANGED <<config, rawView, sink>>

\* Mutant: a failed request empties the collection.
RequestFails_DropsLogs ==
    /\ pc = "requesting"
    /\ pc' = "idle"
    /\ outcome' = "raised"
    /\ _logs' = EmptyLogs(data_parse_structure)
    /\ UNCHANGED <<config, _result, frames, pages, budget, fetched,
                   added, values_count, rawView, sink>>

\* requests.get raises (transport failure) or resp.json() raises (the body is
\* not JSON): the exception leaves every frame of the recursion.
RequestFails ==
    /\ pc = "requesting"
    /\ pc' = "idle"
    /\ outcome' = "raised"
    /\ UNCHANGED <<config, _logs, _result, frames, pages, budget, fetched,
                   added, values_count, rawView, sink>>

\* The elements a body can go wrong at: one of the wrong shape (a missing
\* key, a timestamp that is no integer), or a value whose message cannot be
\* hashed, stamped with a time the collection may or may not hold.
BadElements ==
    { [kind |-> "shape"], [kind |-> "unhashable", time_ns |-> NsPerSec] }

\* The body is JSON of the wrong shape: _unpack_response raises after it has
\* unpacked the values before the bad element.  KeyError and ValueError are
\* raised before the collection is touched; under the dict policy a message
\* that cannot be hashed raises TypeError in .add, after self._logs[time_ns]
\* has created its key (the list policy appends such a message and does not
\* raise).
MalformedResponse(prefix, bad) ==
    /\ pc = "requesting"
    /\ bad.kind = "unhashable" => data_parse_structure = "dict"
    /\ LET u == _unpack_response(data_parse_structure, _logs, prefix)
       IN  /\ _logs' = IF bad.kind = "unhashable"
                        THEN GetItem(u.logs, bad.time_ns) ELSE u.logs
           /\ fetched' = fetched \o Flatten(prefix)
    /\ pc' = "idle"
    /\ outcome' = "raised"
    /\ UNCHANGED <<config, _result, frames, pages, budget, added,
                   values_count, rawView, sink>>

\* ------------------------------------------------------------------ logs
\* The logs property: compute and cache the view unless one is cached.
logs ==
    /\ pc = "idle"
    /\ IF Falsy(_result)
       THEN \E raw \in RawViews(data_parse_structure, _logs) :
                /\ _result' = List(FormatAll(raw))
                /\ rawView' = raw
       ELSE UNCHANGED <<_result, rawView>>
    /\ UNCHANGED <<config, _logs, pc, frames, pages, outcome, budget, fetched,
                   added, values_count, sink>>

\* --------------------------------------------------------------- to_file
\* to_file(file, 'utf-8', seek): given == NoFile stands for file=None.
to_file(given, seek) ==
    /\ pc = "idle"
    /\ LET f == IF given = NoFile THEN NewFile ELSE given
       IN  /\ IF Falsy(_result)
              THEN \E raw \in RawViews(data_parse_structure, _logs) :
                       /\ _result' = List(FormatAll(raw))
                       /\ rawView' = raw
              ELSE UNCHANGED <<_result, rawView>>
           /\ file' = IF seek THEN Seek0(WriteAll(f, _result'.list))
                      ELSE WriteAll(f, _result'.list)
           /\ file_before' = f
           /\ do_seek' = seek
    /\ UNCHANGED <<config, _logs, pc, frames, pages, outcome, budget, fetched,
                   added, values_count>>

\* The fetch session over a backend holding entries of E.
Respond(E) ==
    \/ \E r \in Responses(E, query_limit) : ReceivePage(r)
    \/ RequestFails
    \/ \E r \in Responses(E, query_limit - 1), bad \in BadElements :
          MalformedResponse(r, bad)

\* Pagination: every call of fetch_logs, entries that differ in time only.
Next ==
    \/ \E q \in Queries, s \in Starts, fa \in BOOLEAN, d \in Directions,
          b \in 0..MaxFullPages : fetch_logs(q, s, fa, d, b, MaxLogs)
    \/ Respond(PageEntries)
    \/ logs

Spec == Init /\ [][Next]_vars

\* Termination: the query and the start are opaque to the recursion, so one
\* of each is called with.
NextPaging ==
    \/ \E fa \in BOOLEAN, d \in Directions, b \in 0..MaxFullPages :
          fetch_logs("q1", 0, fa, d, b, MaxLogs)
    \/ Respond(PageEntries)

\* requests.get blocks until the backend answers: every request gets a page
\* or a failure.
FairSpec == Init /\ [][NextPaging]_vars /\ WF_vars(Respond(PageEntries))

\* Views: every entry, every order of arrival, one query.
NextView ==
    \/ \E fa \in BOOLEAN, d \in Directions, b \in 0..MaxFullPages :
          fetch_logs("q1", 0, fa, d, b, MaxViewLogs)
    \/ Respond(Entries)
    \/ logs

\* A fetcher built with the default next_chunk_step_ns.
InitDefaultStep == Init /\ next_chunk_step_ns = 1

SpecView == InitDefaultStep /\ [][NextView]_vars

\* Streams: views written to sinks, after fetches called with the defaults
\* of fetch_all and direction.
NextStream ==
    \/ \E b \in 0..MaxFullPages :
          fetch_logs("q1", 0, TRUE, "forward", b, MaxStreamLogs)
    \/ Respond(StreamEntries)
    \/ \E f \in SuppliedFiles \cup {NoFile}, seek \in BOOLEAN : to_file(f, seek)

SpecStream == InitDefaultStep /\ [][NextStream]_vars

\* ============================================================== claims
SetOf(es) == { es[i] : i \in DOMAIN es }

\* The largest timestamp among the entries es (es is not empty).
LatestTime(es) ==
    CHOOSE t \in { es[i][1] : i \in DOMAIN es } : \A i \in DOMAIN es : es[i][1] <= t

\* The entries of es stamped t, in their order in es.
RECURSIVE StampedAt(_, _)
StampedAt(es, t) ==
    IF es = <<>> THEN <<>>
    ELSE (IF Head(es)[1] = t THEN <<Head(es)>> ELSE <<>>) \o StampedAt(Tail(es), t)

\* The session's requests: one per invocation of fetch_logs.
Requests == [i \in DOMAIN frames |-> Params(frames[i], query_limit)]

\* ---- C1
\* C1: every request of a fetch session carries the query and the direction
\* of the call that started the session.
C1_SameQueryAndDirection ==
    \A i \in DOMAIN Requests :
        /\ Requests[i].query = frames[1].query
        /\ Requests[i].direction = frames[1].direction

\* ---- C2
\* C2: a follow-up request is issued after a page iff the page held exactly
\* query_limit entries and the call asked to fetch all; its start is the
\* latest timestamp of that page plus next_chunk_step_ns; without fetch_all
\* exactly one request is issued.
C2_FollowUpIffFullPage ==
    /\ \A i \in DOMAIN pages :
          (i < Len(Requests)) <=> (Len(pages[i]) = query_limit /\ frames[1].fetch_all)
    /\ \A i \in DOMAIN Requests :
          i > 1 => /\ i - 1 \in DOMAIN pages
                   /\ Requests[i].start
                        = LatestTime(pages[i - 1]) + next_chunk_step_ns
                   /\ Requests[i].limit = query_limit
    /\ (frames # <<>> /\ ~frames[1].fetch_all) => Len(Requests) = 1

\* Two full pages of two entries, then a page of one: three requests.
C2_Witness ==
    /\ query_limit = 2
    /\ outcome = "returned"
    /\ Len(Requests) = 3
    /\ Len(pages) = 3
    /\ Len(pages[1]) = 2 /\ Len(pages[2]) = 2 /\ Len(pages[3]) = 1
    /\ Requests[3].start = LatestTime(pages[2]) + next_chunk_step_ns

\* A session that fetched one full page without fetch_all: one request.
C2_WitnessSingle ==
    /\ outcome = "returned" /\ ~frames[1].fetch_all
    /\ Len(pages) = 1 /\ Len(pages[1]) = query_limit

\* ---- C3
\* No request follows a partial page, and with fetch_all the session never
\* returns after a full page.
C3_StopsOnlyOnPartial ==
    /\ \A i \in DOMAIN pages :
          Len(pages[i]) < query_limit => (i = Len(pages) /\ Len(Requests) = i)
    /\ (outcome = "returned" /\ frames[1].fetch_all)
          => Len(pages[Len(pages)]) < query_limit

\* C3: against a backend that serves finitely many full pages and then a
\* partial one, every fetch returns to its caller, no request follows the
\* first partial page, and fetch_all never stops after a full page.
C3_PaginationTerminates ==
    /\ (pc = "requesting") ~> (pc = "idle")
    /\ []C3_StopsOnlyOnPartial

\* Two full pages, then the partial page that ends the session.
C3_Witness ==
    /\ outcome = "returned" /\ frames[1].fetch_all
    /\ Len(pages) = MaxFullPages + 1
    /\ \A i \in 1..MaxFullPages : Len(pages[i]) = query_limit
    /\ Len(pages[MaxFullPages + 1]) < query_limit

\* ---- C4
\* The last well-formed page and the entries unpacked before it.
LastPage == pages[Len(pages)]
BeforeLastPage == SubSeq(fetched, 1, Len(fetched) - Len(LastPage))

\* C4 as stated: under either policy a page adds as many pairs as its
\* response holds values entries.
C4_AddedEqualsValues == added = values_count

\* C4 amended: under the list policy a page adds as many pairs as its
\* response holds values entries; under the dict policy it adds the distinct
\* pairs of the response that the collection did not hold yet.
C4_AddedPerPolicy ==
    (pages # <<>> /\ outcome # "raised") =>
        /\ values_count = Len(LastPage)
        /\ data_parse_structure = "list" => added = values_count
        /\ data_parse_structure = "dict" =>
              /\ added = Cardinality(SetOf(LastPage) \ SetOf(BeforeLastPage))
              /\ added <= values_count
        /\ Size(data_parse_structure, _logs)
              = IF data_parse_structure = "list" THEN Len(fetched)
                ELSE Cardinality(SetOf(fetched))

\* A page of the dict policy that repeats a pair the collection holds, and a
\* page of the list policy that does the same.
C4_Witness ==
    /\ pages # <<>> /\ outcome = "returned"
    /\ data_parse_structure = "dict"
    /\ values_count = 2 /\ added = 1

C4_WitnessList ==
    /\ pages # <<>> /\ outcome = "returned"
    /\ data_parse_structure = "list"
    /\ values_count = 2 /\ added = 2
    /\ LastPage[1] = LastPage[2]

\* ---- C5
\* The cached view shows exactly the entries unpacked so far.
C5_ViewIsCurrent ==
    _result # None =>
        /\ _result.list = FormatAll(rawView)
        /\ SetOf(rawView) = SetOf(fetched)
        /\ Len(rawView) = Size(data_parse_structure, _logs)
        /\ data_parse_structure = "list" => Len(rawView) = Len(fetched)

\* C5: logs is the view of everything accumulated so far, a view cached
\* before a fetch is never returned after it, and two accesses with no fetch
\* between them return the same sequence.
C5_LogsCurrentAndStable ==
    /\ []C5_ViewIsCurrent
    /\ [][(_result # None /\ _result' # None) => _result' = _result]_vars

\* logs read after a second fetch call shows the pages of both calls.
C5_Witness ==
    /\ _result # None
    /\ Len(fetched) > Len(Flatten(pages))
    /\ pages # <<>> /\ pages[1] # <<>>
    /\ outcome = "returned"

\* ---- C6
\* C6: the view is ascending in the raw timestamp under both policies, and
\* under the list policy entries of one timestamp keep their order of arrival.
C6_SortedAscendingStable ==
    _result # None =>
        /\ _result.list = FormatAll(rawView)
        /\ \A i, j \in DOMAIN rawView : i < j => rawView[i][1] <= rawView[j][1]
        /\ data_parse_structure = "list" =>
              \A t \in TimeNs : StampedAt(rawView, t) = StampedAt(fetched, t)

\* Entries that arrived latest-first, two of them with one timestamp.
C6_Witness ==
    /\ _result # None
    /\ data_parse_structure = "list"
    /\ Len(fetched) = 3
    /\ fetched[1][1] > fetched[2][1]
    /\ fetched[2][1] = fetched[3][1] /\ fetched[2][2] # fetched[3][2]

\* ---- C7
\* C7: under the dict policy a pair fetched any number of times shows once,
\* pairs that differ in message or in timestamp all show; under the list
\* policy a pair fetched k times shows k times.
C7_Multiplicity ==
    _result # None =>
        /\ _result.list = FormatAll(rawView)
        /\ \A e \in Entries :
              Count(rawView, e) =
                  IF data_parse_structure = "list" THEN Count(fetched, e)
                  ELSE IF Count(fetched, e) >= 1 THEN 1 ELSE 0

\* A pair fetched twice, in two pages, beside one of the same timestamp and
\* another message.
C7_Witness ==
    /\ _result # None
    /\ data_parse_structure = "dict"
    /\ Len(pages) = 2
    /\ \E e \in Entries : e \in SetOf(pages[1]) /\ e \in SetOf(pages[2])
    /\ \E e1, e2 \in SetOf(fetched) : e1[1] = e2[1] /\ e1[2] # e2[2]
    /\ Len(fetched) = 3 /\ Len(_result.list) = 2

C7_WitnessList ==
    /\ _result # None
    /\ data_parse_structure = "list"
    /\ \E e \in Entries : Count(fetched, e) = 2 /\ Count(rawView, e) = 2

\* ---- C8
\* C8: when a request fails the failure reaches the caller, the failed
\* request is the last of the session, and every entry of the earlier pages
\* is in the collection and in logs.
C8_FailureKeepsEarlierPages ==
    outcome = "raised" =>
        /\ pc = "idle"
        /\ Len(Requests) = Len(pages) + 1
        /\ \A e \in SetOf(Flatten(pages)) :
              /\ e \in Pairs(data_parse_structure, _logs)
              /\ data_parse_structure = "list" =>
                    Count(_logs, e) >= Count(Flatten(pages), e)
              /\ _result # None =>
                    \E i \in DOMAIN _result.list :
                        _result.list[i] = <<FormatTime(e[1]), e[2]>>

\* A session that failed on its second request, read through logs.
C8_Witness ==
    /\ outcome = "raised"
    /\ Len(pages) = 1 /\ Len(pages[1]) = query_limit
    /\ _result # None /\ Len(_result.list) >= 1

\* ---- C10
\* Every page holds only entries at or after its request's start.
HonoursStart ==
    \A i \in DOMAIN pages : \A k \in DOMAIN pages[i] :
        pages[i][k][1] >= Requests[i].start

\* C10: in a forward fetch with a step of at least 1 against a backend that
\* honours start, each follow-up start is past every timestamp of the page
\* before it, starts strictly increase, and no entry of an earlier page is in
\* a later one.
C10_NoRefetch ==
    (frames # <<>> /\ frames[1].direction = "forward"
       /\ next_chunk_step_ns >= 1 /\ HonoursStart) =>
        /\ \A i \in DOMAIN Requests : i > 1 =>
              \A k \in DOMAIN pages[i - 1] :
                  Requests[i].start > pages[i - 1][k][1]
        /\ \A i, j \in DOMAIN Requests : i < j => Requests[i].start < Requests[j].start
        /\ \A i, j \in DOMAIN pages : i < j => SetOf(pages[i]) \cap SetOf(pages[j]) = {}
        /\ \A e \in SetOf(Flatten(pages)) :
              \E i \in DOMAIN pages : Count(Flatten(pages), e) = Count(pages[i], e)

\* A forward session of three requests against such a backend.
C10_Witness ==
    /\ frames # <<>> /\ frames[1].direction = "forward"
    /\ next_chunk_step_ns >= 1 /\ HonoursStart
    /\ Len(pages) = 3 /\ pages[2] # <<>>
    /\ outcome = "returned"

\* ---- C9
\* file.read(): the bytes from the cursor to the end.
ReadRest(f) == SubSeq(f.buf, f.pos + 1, Len(f.buf))

\* The bytes before the first byte b of bytes, or all of them.
RECURSIVE UpTo(_, _)
UpTo(bytes, b) ==
    IF bytes = <<>> \/ Head(bytes) = b THEN <<>>
    ELSE <<Head(bytes)>> \o UpTo(Tail(bytes), b)

\* bytes split at every NEWLINE; a last line need not end in one.
RECURSIVE SplitLines(_)
SplitLines(bytes) ==
    IF bytes = <<>> THEN <<>>
    ELSE LET line == UpTo(bytes, 10)
         IN  <<line>> \o SplitLines(SubSeq(bytes, Len(line) + 2, Len(bytes)))

\* A line split at its first TAB into <<timestamp, message>>.
SplitTab(line) ==
    LET ts == UpTo(line, 9)
    IN  IF Len(ts) = Len(line) THEN <<line>>
        ELSE <<ts, SubSeq(line, Len(ts) + 2, Len(line))>>

\* What a reader of the returned sink gets: one <<timestamp, message>> a line.
ReadBack(f) ==
    LET lines == SplitLines(ReadRest(f))
    IN  [i \in DOMAIN lines |-> SplitTab(lines[i])]

\* The entries of logs as a reader should get them.
Expected(view) == [i \in DOMAIN view |-> <<Encode(view[i][1]), Encode(view[i][2])>>]

\* timestamp TAB message NEWLINE for every entry of the view, in its order.
RECURSIVE Stream(_)
Stream(view) ==
    IF view = <<>> THEN <<>>
    ELSE Encode(view[1][1]) \o <<9>> \o Encode(view[1][2]) \o <<10>>
           \o Stream(Tail(view))

HasNewline(view) ==
    \E i \in DOMAIN view : \E k \in DOMAIN view[i][2] : view[i][2][k] = "\n"

\* C9 as stated: the sink holds one line per entry of logs, and read back
\* after the seek it yields exactly the entries of logs, for a new sink and
\* for a supplied one.
C9_RoundTrip ==
    file # NoFile =>
        /\ do_seek => file.pos = 0
        /\ do_seek => ReadBack(file) = Expected(_result.list)

\* C9 amended: to_file writes the lines of logs, in order, at the sink's
\* cursor, over what was there, leaving the rest and filling a gap between
\* the sink's end and the cursor with zero bytes; with no entry the sink's
\* bytes stay as they were; the cursor ends at 0 with do_seek and after the
\* last line without; read back from the start after the seek of do_seek, a
\* sink that was empty with its cursor at 0 yields exactly the entries of
\* logs when no message holds a NEWLINE.
C9_StreamAtCursor ==
    file # NoFile =>
        LET bytes == Stream(_result.list)
            p == file_before.pos
            end == p + Len(bytes)
        IN  /\ file.pos = IF do_seek THEN 0 ELSE end
            /\ bytes = <<>> => file.buf = file_before.buf
            /\ bytes # <<>> =>
                  /\ Len(file.buf) = Max(Len(file_before.buf), end)
                  /\ SubSeq(file.buf, p + 1, end) = bytes
                  /\ \A i \in 1..p :
                        file.buf[i] = IF i <= Len(file_before.buf)
                                      THEN file_before.buf[i] ELSE 0
                  /\ SubSeq(file.buf, end + 1, Len(file.buf))
                       = SubSeq(file_before.buf, end + 1, Len(file_before.buf))
            /\ (do_seek /\ file_before = NewFile /\ ~HasNewline(_result.list))
                  => ReadBack(file) = Expected(_result.list)

\* Two entries written to a new sink and read back in the order of logs.
C9_Witness ==
    /\ file # NoFile /\ do_seek /\ file_before = NewFile
    /\ Len(_result.list) = 2
    /\ ~HasNewline(_result.list)
    /\ ReadBack(file) = Expected(_result.list)
    /\ rawView[1][1] < rawView[2][1]

\* An empty sink supplied with its cursor past the end: the gap is filled
\* with zero bytes and the sink does not read back as the entries of logs.
C9_WitnessGap ==
    /\ file # NoFile /\ do_seek /\ file_before = [buf |-> <<>>, pos |-> 3]
    /\ Len(_result.list) = 1 /\ ~HasNewline(_result.list)
    /\ SubSeq(file.buf, 1, 3) = <<0, 0, 0>>
    /\ SubSeq(file.buf, 4, Len(file.buf)) = Stream(_result.list)
    /\ ReadBack(file) # Expected(_result.list)

\* A supplied sink that held a byte before the cursor.
C9_WitnessSupplied ==
    /\ file # NoFile /\ do_seek /\ file_before.pos = 1
    /\ Len(_result.list) = 1
    /\ ReadBack(file) # Expected(_result.list)

====
